---- MODULE Spec2Model ----
(***************************************************************************)
(* A model of pstream (src/lib.rs): a backtracking recursive-descent       *)
(* parser over the grammar                                                 *)
(*     T = F + T | F        F = P * F | P        P = 0 | 1 | ... | 9       *)
(* that records every rule entry, success, failure and token consumption   *)
(* in a Sink (an event log and a memo table).                              *)
(*                                                                         *)
(* Strings are modelled as sequences of UTF-8 bytes, because InputIndex    *)
(* is a byte offset and str::len / str::starts_with work on bytes.  An     *)
(* ASCII byte is written as the one-character string it encodes; the two   *)
(* bytes of U+00E9 are written "C3" and "A9".                              *)
(*                                                                         *)
(* The recursion of Parser::parse and the ParseLet bodies is unfolded into *)
(* an explicit call stack: one frame per active Parser::parse call.        *)
(***************************************************************************)
EXTENDS Integers, Sequences, FiniteSets, TLC

VARIABLES
    input,      \* Parser.input, a sequence of bytes
    position,   \* Parser.position.0, a byte offset into input
    log,        \* Sink.log
    memo,       \* Sink.memo, a function from <<name, position>> to LogIndex
    stack,      \* the active Parser::parse calls, innermost last
    ret,        \* the boolean an operand or a rule body has just returned
    pc,         \* where test::math (or another caller) stands
    out,        \* what println!("{}", sink) has written
    first       \* what a caller that parses twice keeps of its first parse

vars == <<input, position, log, memo, stack, ret, pc, out, first>>

\* ------------------------------------------------------------------ bounds

\* inputs of up to MaxLen characters are explored
MaxLen == 4

\* the eat driver applies at most MaxEats tokens in a row
MaxEats == 2

\* ----------------------------------------------------------------- strings

\* The characters inputs are built from, each as its UTF-8 bytes.
Chars == { <<"1">>, <<"2">>, <<"+">>, <<"*">>, <<"C3", "A9">> }

RECURSIVE Flatten(_)
Flatten(cs) == IF cs = <<>> THEN <<>> ELSE Head(cs) \o Flatten(Tail(cs))

\* The inputs of the specification's concrete cases.
NamedInputs ==
    { <<"1", "*", "3">>, <<"2", "+", "3", "*", "4">>, <<"1", "2">>,
      <<"*", "3">>, <<>> }

\* Inputs with two operators, which make term(1) and factor(1) recurse twice.
DeepInputs ==
    { <<"1", "+", "2", "+", "1">>, <<"1", "*", "2", "*", "1">>,
      <<"1", "+", "2", "*", "1">>, <<"1", "*", "2", "+", "1">>,
      <<"1", "*", "2", "+", "1", "*", "2">> }

\* Inputs with an ASCII character that is neither a digit nor an operator.
OtherInputs ==
    { <<"x">>, <<"x", "1">>, <<"1", "x", "2">>, <<"1", "+", "x">>,
      <<"1", "*", "x", "+", "2">>, <<"9", "+", "0", "x">> }

Inputs ==
    NamedInputs \cup DeepInputs \cup OtherInputs \cup
    { Flatten(cs) : cs \in UNION { [1..n -> Chars] : n \in 0..MaxLen } }

\* char::len_utf8 of the character whose first byte is b
Utf8Width(b) == IF b = "C3" THEN 2 ELSE 1

\* a digit pattern that lets an operator through
DigitsAndStar == { "0", "1", "2", "3", "4", "5", "6", "7", "8", "9", "*" }

\* the pattern of Primitive::parse
Digits == { "0", "1", "2", "3", "4", "5", "6", "7", "8", "9" }

\* str::starts_with
StartsWith(s, token) ==
    /\ Len(token) <= Len(s)
    /\ SubSeq(s, 1, Len(token)) = token

\* ------------------------------------------------------------------ events

StartEv(name, p) == [type |-> "Start", name |-> name, position |-> p]
CommitEv == [type |-> "Commit"]
AbortEv == [type |-> "Abort"]
ConsumeEv(token) == [type |-> "Consume", token |-> token]

IsStart(e) == e.type = "Start"

IsClose(e) == e.type \in {"Commit", "Abort"}

IsConsume(e) == e.type = "Consume"

\* scanning l backwards from index j with d closes still to be matched:
\* the index of the Start that is then open, 0 when there is none
RECURSIVE OpenStartBefore(_, _, _)
OpenStartBefore(l, j, d) ==
    IF j = 0 THEN 0
    ELSE IF IsStart(l[j])
         THEN IF d = 0 THEN j ELSE OpenStartBefore(l, j - 1, d - 1)
         ELSE IF IsClose(l[j]) THEN OpenStartBefore(l, j - 1, d + 1)
         ELSE OpenStartBefore(l, j - 1, d)

\* the index of the Start that the Commit or Abort at index i closes
MatchingStart(l, i) == OpenStartBefore(l, i - 1, 0)

\* -------------------------------------------------------------------- Sink

\* Sink::start that records the memo entry but never pushes the event
SinkStartLogNoPush(l, name, p) == l

\* Sink::start, the log: push Event::Start
SinkStartLog(l, name, p) == Append(l, StartEv(name, p))

\* Sink::start that keeps the entry of the first attempt (entry().or_insert)
SinkStartMemoKeepFirst(m, l, name, p) ==
    [k \in DOMAIN m \cup {<<name, p>>} |->
        IF k \in DOMAIN m THEN m[k] ELSE Len(l)]

\* Sink::start, the memo: insert ((name, position), LogIndex(log.len()))
SinkStartMemo(m, l, name, p) ==
    [k \in DOMAIN m \cup {<<name, p>>} |->
        IF k = <<name, p>> THEN Len(l) ELSE m[k]]

\* Sink::commit
SinkCommit(l) == Append(l, CommitEv)

\* Sink::abort that also drops what the failed rule had appended
SinkAbortTruncating(l) ==
    Append(SubSeq(l, 1, OpenStartBefore(l, Len(l), 0)), AbortEv)

\* Sink::abort that pushes the wrong event
SinkAbortAsCommit(l) == Append(l, CommitEv)

\* Sink::abort
SinkAbort(l) == Append(l, AbortEv)

\* ------------------------------------------------- impl Display for Sink

\* write!(f, "  ") for _ in 0..level: the number of spaces written
Indent(level) == IF level > 0 THEN 2 * level ELSE 0

\* the text of an event's line, as the pieces the format string puts together
FmtEvent(e) ==
    IF IsStart(e) THEN <<"START", e.name, e.position>>
    ELSE IF e.type = "Commit" THEN <<"COMMIT">>
    ELSE IF e.type = "Abort" THEN <<"ABORT">>
    ELSE <<"CONSUME", e.token>>

\* the loop of fmt with the level lowered after the line is written
RECURSIVE FmtFromLate(_, _, _)
FmtFromLate(l, k, level) ==
    IF k > Len(l) THEN <<>>
    ELSE LET next == IF IsStart(l[k]) THEN level + 1
                     ELSE IF IsClose(l[k]) THEN level - 1 ELSE level
         IN  << [level |-> level, indent |-> Indent(level), text |-> FmtEvent(l[k])] >>
                 \o FmtFromLate(l, k + 1, next)

\* the loop of fmt over the log from index k: one line per event, with the
\* value of level as the line is written and the spaces written before it
RECURSIVE FmtFrom(_, _, _)
FmtFrom(l, k, level) ==
    IF k > Len(l) THEN <<>>
    ELSE LET lv == IF IsClose(l[k]) THEN level - 1 ELSE level
             next == IF IsStart(l[k]) THEN lv + 1 ELSE lv
         IN  << [level |-> lv, indent |-> Indent(lv), text |-> FmtEvent(l[k])] >>
                 \o FmtFrom(l, k + 1, next)

\* fmt: the trace lines, then the memo lines in the table's iteration order,
\* which is unspecified, hence a set
Display(l, m) ==
    [trace |-> FmtFrom(l, 1, 0),
     memo |-> { <<k[1], k[2], m[k]>> : k \in DOMAIN m }]

\* ------------------------------------------------------------------ Parser

\* Parser::remaining
Remaining == SubSeq(input, position + 1, Len(input))

\* the number of characters (codepoints) of a string
RECURSIVE CharCount(_)
CharCount(s) ==
    IF s = <<>> THEN 0
    ELSE 1 + CharCount(SubSeq(s, Utf8Width(s[1]) + 1, Len(s)))

\* Parser::eat advancing by the token's character count, not its byte length
EatByChars(token) ==
    IF StartsWith(Remaining, token)
    THEN [ok |-> TRUE,
          log |-> Append(log, ConsumeEv(token)),
          position |-> position + CharCount(token)]
    ELSE [ok |-> FALSE, log |-> log, position |-> position]

\* Parser::eat without the starts_with check
EatUnchecked(token) ==
    [ok |-> TRUE,
     log |-> Append(log, ConsumeEv(token)),
     position |-> position + Len(token)]

\* Parser::eat: what it returns and what it leaves in log and position
Eat(token) ==
    IF StartsWith(Remaining, token)
    THEN [ok |-> TRUE,
          log |-> Append(log, ConsumeEv(token)),
          position |-> position + Len(token)]
    ELSE [ok |-> FALSE, log |-> log, position |-> position]

\* a failed parse that keeps the advanced cursor
RestoreNothing(backtrack) == position

\* a failed parse that rewinds to the start of the input
RestoreToZero(backtrack) == 0

\* *self = backtrack
Restore(backtrack) == backtrack

\* ----------------------------------------------------------------- grammar

\* An operand of a rule body: a nested Parser::parse or a Parser::eat.
ParseOp(rule) == [op |-> "parse", arg |-> rule]
EatOp(token) == [op |-> "eat", arg |-> token]

Primitive == [name |-> "prim", conn |-> "match", ops |-> <<>>]

\* factor(1) looking for the wrong operator
Factor1Plus ==
    [name |-> "factor(1)", conn |-> "and",
     ops |-> << ParseOp("prim"), EatOp(<<"+">>), ParseOp("factor") >>]

Factor1 ==
    [name |-> "factor(1)", conn |-> "and",
     ops |-> << ParseOp("prim"), EatOp(<<"*">>), ParseOp("factor") >>]

Factor2 == [name |-> "factor(2)", conn |-> "and", ops |-> << ParseOp("prim") >>]

\* factor trying its alternatives in the other order
FactorSwapped ==
    [name |-> "factor", conn |-> "or",
     ops |-> << ParseOp("factor(2)"), ParseOp("factor(1)") >>]

Factor ==
    [name |-> "factor", conn |-> "or",
     ops |-> << ParseOp("factor(1)"), ParseOp("factor(2)") >>]

\* term(1) as F + F: its last operand does not recurse into term
Term1NoRecursion ==
    [name |-> "term(1)", conn |-> "and",
     ops |-> << ParseOp("factor"), EatOp(<<"+">>), ParseOp("factor") >>]

\* term(1) as T + F: left recursion
Term1LeftRecursive ==
    [name |-> "term(1)", conn |-> "and",
     ops |-> << ParseOp("term"), EatOp(<<"+">>), ParseOp("factor") >>]

Term1 ==
    [name |-> "term(1)", conn |-> "and",
     ops |-> << ParseOp("factor"), EatOp(<<"+">>), ParseOp("term") >>]

Term2 == [name |-> "term(2)", conn |-> "and", ops |-> << ParseOp("factor") >>]

\* term trying its alternatives in the other order
TermSwapped ==
    [name |-> "term", conn |-> "or",
     ops |-> << ParseOp("term(2)"), ParseOp("term(1)") >>]

Term ==
    [name |-> "term", conn |-> "or",
     ops |-> << ParseOp("term(1)"), ParseOp("term(2)") >>]

ParseLets == { Primitive, Factor1, Factor2, Factor, Term1, Term2, Term }

\* the ParseLet a name stands for
ParseLet(name) == CHOOSE r \in ParseLets : r.name = name

\* the boolean a rule body returns, as the register holds it
Bool(b) == IF b THEN "true" ELSE "false"

\* ------------------------------------------------------------------- state

Top == stack[Len(stack)]

Pop == SubSeq(stack, 1, Len(stack) - 1)

SetIp(ip) == [stack EXCEPT ![Len(stack)].ip = ip]

\* the operand the innermost rule body is about to evaluate, or has evaluated
Operand == ParseLet(Top.rule).ops[Top.ip]

Running == stack # <<>> /\ Top.ip >= 1

\* nothing printed yet
NoOutput == [trace |-> <<>>, memo |-> {}]

\* no first parse yet
NoFirst == [ran |-> FALSE, ret |-> "none", position |-> 0, log |-> <<>>]

Init ==
    /\ input \in Inputs
    /\ position = 0
    /\ log = <<>>
    /\ memo = <<>>
    /\ stack = <<>>
    /\ ret = "none"
    /\ pc = "new"
    /\ out = NoOutput
    /\ first = NoFirst

\* Parser::parse, lines 114-115: snapshot, sink.start, enter the rule body
ParserParseEnter(rule) ==
    /\ log' = SinkStartLog(log, rule, position)
    /\ memo' = SinkStartMemo(memo, log, rule, position)
    /\ stack' = Append(stack, [rule |-> rule, backtrack |-> position, ip |-> 1])
    /\ ret' = "none"
    /\ UNCHANGED <<input, position, out, first>>

\* test::math: parser.parse(&mut sink, &mut Term)
Math ==
    /\ pc = "new"
    /\ pc' = "parsing"
    /\ ParserParseEnter(Term.name)

\* a nested parse that consults the memo first and gives up on a rule that
\* the Sink already records at this position
CallParseMemoized ==
    /\ Running
    /\ ret = "none"
    /\ ParseLet(Top.rule).conn # "match"
    /\ Operand.op = "parse"
    /\ IF <<Operand.arg, position>> \in DOMAIN memo
       THEN /\ ret' = "false"
            /\ UNCHANGED <<input, position, log, memo, stack, out, first>>
       ELSE ParserParseEnter(Operand.arg)
    /\ UNCHANGED pc

\* a rule body calls parser.parse(sink, &mut SubRule)
CallParse ==
    /\ Running
    /\ ret = "none"
    /\ ParseLet(Top.rule).conn # "match"
    /\ Operand.op = "parse"
    /\ ParserParseEnter(Operand.arg)
    /\ UNCHANGED pc

\* a rule body calls parser.eat("*", sink) or parser.eat("+", sink)
CallEat ==
    /\ Running
    /\ ret = "none"
    /\ ParseLet(Top.rule).conn # "match"
    /\ Operand.op = "eat"
    /\ LET r == Eat(Operand.arg) IN
        /\ log' = r.log
        /\ position' = r.position
        /\ ret' = Bool(r.ok)
    /\ UNCHANGED <<input, memo, stack, pc, out, first>>

\* Primitive::parse
PrimitiveParse ==
    /\ Running
    /\ ret = "none"
    /\ Top.rule = Primitive.name
    /\ IF Remaining # <<>> /\ Remaining[1] \in Digits
       THEN LET r == Eat(SubSeq(Remaining, 1, Utf8Width(Remaining[1]))) IN
            /\ log' = r.log
            /\ position' = r.position
            /\ ret' = "true"
       ELSE /\ ret' = "false"
            /\ UNCHANGED <<log, position>>
    /\ stack' = SetIp(0)
    /\ UNCHANGED <<input, memo, pc, out, first>>

\* a && b && c: the next operand is evaluated only after a true one
AndThen ==
    /\ Running
    /\ ret # "none"
    /\ ParseLet(Top.rule).conn = "and"
    /\ IF ret = "true" /\ Top.ip < Len(ParseLet(Top.rule).ops)
       THEN stack' = SetIp(Top.ip + 1) /\ ret' = "none"
       ELSE stack' = SetIp(0) /\ ret' = ret
    /\ UNCHANGED <<input, position, log, memo, pc, out, first>>

\* a | b: the next operand is evaluated whatever the first returned
OrEager ==
    /\ Running
    /\ ret # "none"
    /\ ParseLet(Top.rule).conn = "or"
    /\ IF Top.ip < Len(ParseLet(Top.rule).ops)
       THEN stack' = SetIp(Top.ip + 1) /\ ret' = "none"
       ELSE stack' = SetIp(0) /\ ret' = ret
    /\ UNCHANGED <<input, position, log, memo, pc, out, first>>

\* a || b: the next operand is evaluated only after a false one
OrElse ==
    /\ Running
    /\ ret # "none"
    /\ ParseLet(Top.rule).conn = "or"
    /\ IF ret = "false" /\ Top.ip < Len(ParseLet(Top.rule).ops)
       THEN stack' = SetIp(Top.ip + 1) /\ ret' = "none"
       ELSE stack' = SetIp(0) /\ ret' = ret
    /\ UNCHANGED <<input, position, log, memo, pc, out, first>>

\* Parser::parse, lines 116-123: the rule body has returned
ParserParseExit ==
    /\ stack # <<>>
    /\ Top.ip = 0
    /\ IF ret = "true"
       THEN /\ log' = SinkCommit(log)
            /\ position' = position
       ELSE /\ log' = SinkAbort(log)
            /\ position' = Restore(Top.backtrack)
    /\ stack' = Pop
    /\ pc' = IF Len(stack) = 1 THEN "done" ELSE pc
    /\ UNCHANGED <<input, memo, ret, out, first>>

\* test::math: println!("{}", sink)
Println ==
    /\ pc = "done"
    /\ pc' = "printed"
    /\ out' = Display(log, memo)
    /\ UNCHANGED <<input, position, log, memo, stack, ret, first>>

Next ==
    \/ Math
    \/ CallParse
    \/ CallEat
    \/ PrimitiveParse
    \/ AndThen
    \/ OrElse
    \/ ParserParseExit
    \/ Println

Spec == Init /\ [][Next]_vars

\* ------------------------------------------------- Parser::eat on its own

\* The tokens the eat driver tries: one and two bytes, one and two characters,
\* and the empty token.
Tokens ==
    { <<>>, <<"1">>, <<"+">>, <<"*">>, <<"C3", "A9">>, <<"1", "*">>,
      <<"C3", "A9", "2">> }

\* Parser::new(input) and Sink::default(), either for test::math or for a
\* caller that applies Parser::eat directly
InitEat ==
    /\ input \in Inputs
    /\ position = 0
    /\ log = <<>>
    /\ memo = <<>>
    /\ stack = <<>>
    /\ ret = "none"
    /\ pc \in {"new", "eat"}
    /\ out = NoOutput
    /\ first = NoFirst

\* parser.eat(token, &mut sink), called from outside any rule
EatCall(token) ==
    /\ pc = "eat"
    /\ Len(log) < MaxEats
    /\ LET r == Eat(token) IN
        /\ log' = r.log
        /\ position' = r.position
        /\ ret' = Bool(r.ok)
    /\ UNCHANGED <<input, memo, stack, pc, out, first>>

EatAny == \E token \in Tokens : EatCall(token)

NextEat ==
    \/ Next
    \/ EatAny

SpecEat == InitEat /\ [][NextEat]_vars

\* ------------------------------------------- two parses into the same Sink

\* A caller keeps the outcome of its parse, makes a new Parser over the same
\* input (Parser::new) and is about to parse Term again into the Sink that
\* the first parse has filled.
Again ==
    /\ pc = "done"
    /\ ~first.ran
    /\ first' = [ran |-> TRUE, ret |-> ret, position |-> position, log |-> log]
    /\ position' = 0
    /\ ret' = "none"
    /\ pc' = "new"
    /\ UNCHANGED <<input, log, memo, stack, out>>

NextTwice ==
    \/ Next
    \/ Again

SpecTwice == Init /\ [][NextTwice]_vars

\* ------------------------------------------------------------ scheduling

\* The inputs of the runs checked for termination: every digit takes the same
\* branch of Primitive::parse, so one digit stands for all in the generated
\* inputs; the listed inputs are kept as they are.
FairInputs ==
    { s \in Inputs :
        \/ s \in NamedInputs \cup DeepInputs \cup OtherInputs
        \/ \A k \in 1..Len(s) : s[k] # "2" }

FairInit == Init /\ input \in FairInputs

\* The program is sequential: whenever a step is possible, it is taken.
FairSpec == FairInit /\ [][Next]_vars /\ WF_vars(Next)

\* ------------------------------------------------------- reading the log

\* scanning l from index k with d Starts open: no close finds nothing open
RECURSIVE WellNestedFrom(_, _, _)
WellNestedFrom(l, k, d) ==
    IF k > Len(l) THEN TRUE
    ELSE IF IsStart(l[k]) THEN WellNestedFrom(l, k + 1, d + 1)
    ELSE IF IsClose(l[k]) THEN d >= 1 /\ WellNestedFrom(l, k + 1, d - 1)
    ELSE WellNestedFrom(l, k + 1, d)

\* the tokens of all Consume events of l, in log order
RECURSIVE ConsumeTokens(_)
ConsumeTokens(l) ==
    IF l = <<>> THEN <<>>
    ELSE IF IsConsume(Head(l)) THEN <<Head(l).token>> \o ConsumeTokens(Tail(l))
    ELSE ConsumeTokens(Tail(l))

\* scanning l from index k; open[n] holds the tokens consumed so far inside
\* the n-th open Start (open[1]: outside every Start).  An Abort drops the
\* tokens of the span it closes, a Commit hands them to the enclosing span.
\* The result: the tokens of the Consume events outside every aborted span.
RECURSIVE LiveTokensFrom(_, _, _)
LiveTokensFrom(l, k, open) ==
    LET n == Len(open) IN
    IF k > Len(l) THEN Flatten(open)
    ELSE IF IsStart(l[k]) THEN LiveTokensFrom(l, k + 1, Append(open, <<>>))
    ELSE IF IsConsume(l[k])
         THEN LiveTokensFrom(l, k + 1, [open EXCEPT ![n] = Append(@, l[k].token)])
    ELSE IF l[k].type = "Commit"
         THEN LiveTokensFrom(l, k + 1,
                  [SubSeq(open, 1, n - 1) EXCEPT ![n - 1] = @ \o open[n]])
    ELSE LiveTokensFrom(l, k + 1, SubSeq(open, 1, n - 1))

LiveTokens(l) == LiveTokensFrom(l, 1, << <<>> >>)

\* the log holds a Consume between index s and index a
ConsumeBetween(s, a) == \E k \in (s + 1)..(a - 1) : IsConsume(log[k])

Done == pc = "done"

\* ------------------------------------------------------------------ claims

\* C1. Backtracking purity: whenever Parser::parse has just returned false
\* (the log ends with the Abort it pushed), the position equals the position
\* the call started at, which the Start event closed by that Abort records,
\* however far the rule or its sub-rules had advanced before failing.
C1_BacktrackingPurity ==
    (log # <<>> /\ log[Len(log)].type = "Abort") =>
        LET s == MatchingStart(log, Len(log)) IN
        /\ s >= 1
        /\ position = log[s].position

\* C1 witness: term(1) or factor(1) has failed after a token was consumed
\* inside it, and the cursor is back where the rule started.
C1_Witness ==
    /\ log # <<>>
    /\ log[Len(log)].type = "Abort"
    /\ ret = "false"
    /\ LET s == MatchingStart(log, Len(log)) IN
        /\ s >= 1
        /\ ConsumeBetween(s, Len(log))
        /\ position = log[s].position

\* C2. Event nesting: scanned left to right, every Commit or Abort of the log
\* closes a Start that is still open; no prefix holds more closes than Starts.
C2_EventNesting == WellNestedFrom(log, 1, 0)

\* C2 witness: a finished parse whose log holds Starts closed by Commit and
\* Starts closed by Abort.
C2_Witness ==
    /\ Done
    /\ \E i, j \in 1..Len(log) : log[i].type = "Commit" /\ log[j].type = "Abort"
    /\ Len(log) >= 20

\* the input holds the bytes of token at the cursor
TokenAtCursor(token) ==
    \A i \in 1..Len(token) :
        /\ position + i <= Len(input)
        /\ input[position + i] = token[i]

\* what a call of eat(token, sink) has to leave behind
EatContract(token) ==
    IF TokenAtCursor(token)
    THEN /\ ret' = "true"
         /\ log' = log \o << [type |-> "Consume", token |-> token] >>
         /\ position' = position + Len(token)
    ELSE /\ ret' = "false"
         /\ position' = position
         /\ log' = log
         /\ memo' = memo

\* C3. eat(token, sink), called by a rule body or from outside: when the
\* remaining input starts with token it appends exactly one Consume{token},
\* advances the position by the byte length of token and returns true;
\* otherwise it returns false and leaves position, log and memo unchanged.
C3_Eat ==
    [][ /\ CallEat => EatContract(Operand.arg)
        /\ \A token \in Tokens : EatCall(token) => EatContract(token) ]_vars

\* C3 witness: eat has consumed the two-byte token and a later eat has failed.
C3_Witness ==
    /\ pc = "eat"
    /\ ret = "false"
    /\ log = << ConsumeEv(<<"C3", "A9">>) >>
    /\ position = 2

\* C4. "1*3" against Term: true, and the cursor ends at 3.
C4_OneTimesThree ==
    (Done /\ input = <<"1", "*", "3">>) => (ret = "true" /\ position = 3)

\* C4 witness: the parse of "1*3" has returned.
C4_Witness ==
    Done /\ input = <<"1", "*", "3">> /\ stack = <<>> /\ position = Len(input)

\* C5 as stated: after "1*3" against Term the log holds exactly two Consume
\* events, for "1" then "3".
C5_TwoConsumes ==
    (Done /\ input = <<"1", "*", "3">>) =>
        ConsumeTokens(log) = << <<"1">>, <<"3">> >>

\* C5 amended: after "1*3" against Term the log holds eight Consume events,
\* for "1" "*" "3" "3" "1" "*" "3" "3"; those outside every aborted attempt
\* are three, for "1" "*" "3".
C5_ConsumesOfOneTimesThree ==
    (Done /\ input = <<"1", "*", "3">>) =>
        /\ ConsumeTokens(log) =
              << <<"1">>, <<"*">>, <<"3">>, <<"3">>,
                 <<"1">>, <<"*">>, <<"3">>, <<"3">> >>
        /\ LiveTokens(log) = << <<"1">>, <<"*">>, <<"3">> >>

\* C5 witness: the parse of "1*3" has returned true and its log holds a
\* Consume of the operator.
C5_Witness ==
    /\ Done
    /\ input = <<"1", "*", "3">>
    /\ ret = "true"
    /\ \E i \in 1..Len(log) : log[i] = ConsumeEv(<<"*">>)

TwoPlusThreeTimesFour == <<"2", "+", "3", "*", "4">>

\* C6. "2+3*4" against Term: true, the cursor ends at 5, and term(1) is
\* started at position 0 before any term(2) is started.
C6_TwoPlusThreeTimesFour ==
    (Done /\ input = TwoPlusThreeTimesFour) =>
        /\ ret = "true"
        /\ position = 5
        /\ \E i \in 1..Len(log) :
            /\ log[i] = [type |-> "Start", name |-> "term(1)", position |-> 0]
            /\ \A j \in 1..Len(log) :
                (IsStart(log[j]) /\ log[j].name = "term(2)") => i < j

\* C6 witness: the parse of "2+3*4" has returned and its log holds a Start of
\* term(2).
C6_Witness ==
    /\ Done
    /\ input = TwoPlusThreeTimesFour
    /\ \E j \in 1..Len(log) : IsStart(log[j]) /\ log[j].name = "term(2)"

\* C7. An input that is empty or does not begin with an ASCII digit against
\* Term: false, and the cursor is at 0.
C7_NoLeadingDigit ==
    (Done /\ (input = <<>> \/
              input[1] \notin {"0", "1", "2", "3", "4", "5", "6", "7", "8", "9"}))
        => (ret = "false" /\ position = 0)

\* C7 witness: the parse of "*3" has returned.
C7_Witness == Done /\ input = <<"*", "3">> /\ ret = "false"

\* C8. "12" against Term: true with the cursor at 1, short of the input's end.
C8_OneTwo ==
    (Done /\ input = <<"1", "2">>) =>
        (ret = "true" /\ position = 1 /\ position < Len(input))

\* C8 witness: the parse of "12" has returned true.
C8_Witness == Done /\ input = <<"1", "2">> /\ ret = "true"

FirstVariant(outer) == IF outer = "term" THEN "term(1)" ELSE "factor(1)"

OuterOf(variant) ==
    IF variant \in {"term(1)", "term(2)"} THEN "term" ELSE "factor"

\* C9. Ordered choice, read off the chronological log: a Start of term or
\* factor is followed at once by the Start of its first variant at the same
\* position; a Start of term(2) or factor(2) at p comes right after the Abort
\* that closes the first variant started at p by the same invocation of the
\* outer rule; and the Commit of a first variant is followed at once by the
\* Commit of the outer rule, so that invocation never starts the second one.
C9_OrderedChoice ==
    \A i \in 1..Len(log) :
        /\ (IsStart(log[i]) /\ log[i].name \in {"term", "factor"} /\ i < Len(log))
            => log[i + 1] = StartEv(FirstVariant(log[i].name), log[i].position)
        /\ (IsStart(log[i]) /\ log[i].name \in {"term(2)", "factor(2)"})
            => /\ i >= 4
               /\ log[i - 1].type = "Abort"
               /\ LET s == MatchingStart(log, i - 1)
                      outer == OuterOf(log[i].name) IN
                   /\ s >= 2
                   /\ log[s] = StartEv(FirstVariant(outer), log[i].position)
                   /\ log[s - 1] = StartEv(outer, log[i].position)
        /\ (log[i].type = "Commit" /\ i < Len(log)
              /\ MatchingStart(log, i) >= 1
              /\ log[MatchingStart(log, i)].name \in {"term(1)", "factor(1)"})
            => log[i + 1].type = "Commit"

\* C9 witness: a finished parse in which one invocation fell back to term(2)
\* and another committed term(1).
C9_Witness ==
    /\ Done
    /\ \E i \in 1..Len(log) : IsStart(log[i]) /\ log[i].name = "term(2)"
    /\ \E i \in 1..Len(log) :
        /\ log[i].type = "Commit"
        /\ MatchingStart(log, i) >= 1
        /\ log[MatchingStart(log, i)].name = "term(1)"

\* the second alternative of an ordered choice has just been started
SecondVariantStarted ==
    /\ log # <<>>
    /\ IsStart(log[Len(log)])
    /\ log[Len(log)].name \in {"term(2)", "factor(2)"}

\* C10 as stated: when the second alternative is started, the cursor
\* advancement of the failed first alternative and the log entries appended
\* by its sub-rules are undone (nothing is left between its Start and Abort).
C10_AllSideEffectsUndone ==
    SecondVariantStarted =>
        LET a == Len(log) - 1 IN
        /\ position = log[Len(log)].position
        /\ log[a].type = "Abort"
        /\ MatchingStart(log, a) = a - 1

\* C10 amended: when the second alternative is started, the cursor is back
\* at the position the failed first alternative started at, while the log
\* entries appended by its sub-rules are still in the log, closed by an Abort.
C10_CursorUndoneLogKept ==
    SecondVariantStarted =>
        LET a == Len(log) - 1
            s == MatchingStart(log, a) IN
        /\ log[a].type = "Abort"
        /\ s >= 1
        /\ log[s].name = FirstVariant(OuterOf(log[Len(log)].name))
        /\ position = log[s].position
        /\ position = log[Len(log)].position
        /\ s + 1 < a
        /\ IsStart(log[s + 1])

\* C10 witness: the second alternative is started after the first one failed
\* with a token consumed inside it.
C10_Witness ==
    /\ SecondVariantStarted
    /\ log[Len(log) - 1].type = "Abort"
    /\ ConsumeBetween(MatchingStart(log, Len(log) - 1), Len(log) - 1)
    /\ position = log[Len(log)].position

\* C11. The log is append-only: every step leaves each entry already in the
\* log unchanged and at its index, so the log never gets shorter and new
\* entries come after all earlier ones.
C11_AppendOnly ==
    [][ /\ Len(log') >= Len(log)
        /\ SubSeq(log', 1, Len(log)) = log ]_vars

\* C11 witness: a finished parse whose log still holds a Consume inside an
\* attempt that was aborted and rewound, with later entries after it.
C11_Witness ==
    /\ Done
    /\ \E a \in 1..(Len(log) - 1) :
        /\ log[a].type = "Abort"
        /\ ConsumeBetween(MatchingStart(log, a), a)
        /\ IsStart(log[a + 1])

\* the (name, position) pairs of the Start events of the log
StartKeys == { <<log[i].name, log[i].position>> : i \in { j \in 1..Len(log) : IsStart(log[j]) } }

\* the 1-based indices of the Start events with key k
StartsOf(k) ==
    { i \in 1..Len(log) : IsStart(log[i]) /\ <<log[i].name, log[i].position>> = k }

\* C12. Memo invariant: the memo's keys are exactly the (name, position)
\* pairs of the Start events of the log, and each key's LogIndex is below the
\* log length and is the (0-based) index of the latest Start with that name
\* and position, so a later attempt overwrites the entry of an earlier one.
C12_Memo ==
    /\ DOMAIN memo = StartKeys
    /\ \A k \in DOMAIN memo :
        /\ memo[k] >= 0
        /\ memo[k] < Len(log)
        /\ memo[k] + 1 \in StartsOf(k)
        /\ \A i \in StartsOf(k) : i <= memo[k] + 1

\* C12 witness: factor was attempted twice at position 0 (inside term(1),
\* then inside term(2)) and the memo holds the index of the second Start.
C12_Witness ==
    /\ Done
    /\ <<"factor", 0>> \in DOMAIN memo
    /\ Cardinality(StartsOf(<<"factor", 0>>)) = 2
    /\ \E i \in StartsOf(<<"factor", 0>>) : i < memo[<<"factor", 0>>] + 1

\* the step appends exactly the event e to the log
Appends(e) == log' = Append(log, e)

\* the step appends a Consume event to the log
AppendsConsume ==
    /\ Len(log') = Len(log) + 1
    /\ SubSeq(log', 1, Len(log)) = log
    /\ IsConsume(log'[Len(log')])

\* C13. Consume monotonicity: a step that changes the cursor is either an
\* eat, which appends a Consume and moves the position forward by the byte
\* length of its token, or the rewind after a failed rule, which appends the
\* Abort and moves the position back to where that rule was started; every
\* Consume moves the position strictly forward, and every failed rule leaves
\* the position where it was started.
C13_ConsumeMonotonicity ==
    [][ /\ position' # position =>
            \/ /\ AppendsConsume
               /\ position' > position
            \/ /\ Appends(AbortEv)
               /\ position' < position
        /\ AppendsConsume =>
            /\ position' = position + Len(log'[Len(log')].token)
            /\ position' > position
        /\ Appends(AbortEv) =>
            position' = log[MatchingStart(log', Len(log'))].position ]_vars

\* C13 witness: the cursor has been rewound past a consumed token and has
\* then moved forward again with the Consume that ends the log.
C13_Witness ==
    /\ log # <<>>
    /\ IsConsume(log[Len(log)])
    /\ position > 0
    /\ \E a \in 1..Len(log) :
        /\ log[a].type = "Abort"
        /\ ConsumeBetween(MatchingStart(log, a), a)

\* the events the parse in progress has appended to the Sink it was given
AppendedSinceFirst == SubSeq(log, Len(first.log) + 1, Len(log))

\* scanning l forwards from index j with d Starts opened since the one to be
\* closed: the index of the Commit or Abort that closes it, 0 when still open
RECURSIVE CloseAfter(_, _, _)
CloseAfter(l, j, d) ==
    IF j > Len(l) THEN 0
    ELSE IF IsClose(l[j])
         THEN IF d = 0 THEN j ELSE CloseAfter(l, j + 1, d - 1)
         ELSE IF IsStart(l[j]) THEN CloseAfter(l, j + 1, d + 1)
         ELSE CloseAfter(l, j + 1, d)

\* what the attempt started at index s has appended, its Start and its
\* closing event included
Attempt(s) == SubSeq(log, s, CloseAfter(log, s + 1, 0))

\* C14. The Sink never influences parsing: a parse of Term from position 0
\* into a Sink that already holds the log and memo of an earlier parse of the
\* same input returns the same boolean, ends at the same position and
\* appends the same events as that earlier parse did into an empty Sink; and
\* any two attempts of the same rule at the same position, whatever the Sink
\* held when each was started, append the same events and close alike.
C14_SinkNeverRead ==
    /\ (Done /\ first.ran) =>
        /\ ret = first.ret
        /\ position = first.position
        /\ AppendedSinceFirst = first.log
    /\ Done =>
        \A s1, s2 \in 1..Len(log) :
            (s1 < s2 /\ IsStart(log[s1]) /\ log[s1] = log[s2]) =>
                Attempt(s1) = Attempt(s2)

\* C14 witness: the second parse has returned true into a Sink that held the
\* aborted attempts and the memo entries of the first.
C14_Witness ==
    /\ Done
    /\ first.ran
    /\ ret = "true"
    /\ Len(log) = 2 * Len(first.log)
    /\ \E a \in 1..Len(first.log) : first.log[a].type = "Abort"
    /\ \E k \in DOMAIN memo : memo[k] >= Len(first.log)

Printed == pc = "printed"

\* the number of Starts still open when the line of the event at index i is
\* written, a Commit or Abort at i counted as having closed its Start
OpenAt(i) ==
    Cardinality({ j \in 1..(i - 1) : IsStart(log[j]) })
        - Cardinality({ j \in 1..i : IsClose(log[j]) })

\* C15. Rendering of the log of a parse: each event's line is indented by
\* two spaces per Start still open, a Commit or Abort closing its Start
\* before its own line is written; so a Commit or Abort line is indented
\* like the line of the Start it closes, every line between the two is
\* indented at least one level deeper, and the level is never negative.
C15_Rendering ==
    Printed =>
        /\ Len(out.trace) = Len(log)
        /\ \A i \in 1..Len(log) :
            /\ out.trace[i].indent = 2 * OpenAt(i)
            /\ out.trace[i].level >= 0
            /\ IsClose(log[i]) =>
                LET s == MatchingStart(log, i) IN
                /\ s >= 1
                /\ out.trace[i].indent = out.trace[s].indent
                /\ \A k \in (s + 1)..(i - 1) :
                    out.trace[k].indent >= out.trace[s].indent + 2

\* C15 witness: a printed trace with an ABORT line and a COMMIT line, each
\* four levels deep.
C15_Witness ==
    /\ Printed
    /\ \E i, j \in 1..Len(out.trace) :
        /\ out.trace[i] = [level |-> 4, indent |-> 8, text |-> <<"ABORT">>]
        /\ out.trace[j] = [level |-> 4, indent |-> 8, text |-> <<"COMMIT">>]

\* every Start of l is closed
Balanced(l) == WellNestedFrom(l, 1, 0) /\ OpenStartBefore(l, Len(l), 0) = 0

\* a call of Parser::parse is entered in this step
ParseEntered == Len(stack') = Len(stack) + 1

\* a call of Parser::parse returns in this step
ParseReturned == Len(stack') = Len(stack) - 1

\* C16. The protocol of Parser::parse: entering a call appends
\* Start{rule, p} with p the position at the call and leaves the position;
\* when the rule body has returned, the call appends one closing event and
\* returns what the body returned: Commit and true, the position kept, if
\* the body returned true, Abort and false if it returned false.  So when
\* the parse of Term into an empty Sink has returned, every Start is closed,
\* the first event is Start{term, 0} and the last event is Commit if the
\* result is true and Abort if it is false.
C16_ParseProtocol ==
    /\ [][ /\ ParseEntered =>
                /\ Appends(StartEv(stack'[Len(stack')].rule, position))
                /\ position' = position
           /\ ParseReturned =>
                /\ ret \in {"true", "false"}
                /\ ret' = ret
                /\ ret = "true" => (Appends(CommitEv) /\ position' = position)
                /\ ret = "false" => Appends(AbortEv)
           /\ Len(log') > Len(log) /\ IsStart(log'[Len(log')]) => ParseEntered
           /\ Len(log') > Len(log) /\ IsClose(log'[Len(log')]) => ParseReturned
         ]_vars
    /\ [](Done =>
            /\ Balanced(log)
            /\ log[1] = StartEv("term", 0)
            /\ ret = "true" <=> log[Len(log)] = CommitEv
            /\ ret = "false" <=> log[Len(log)] = AbortEv)

\* C16 witness: the parse has returned true with Commit as the last event,
\* after nested calls that were closed by Abort.
C16_Witness ==
    /\ Done
    /\ ret = "true"
    /\ log[Len(log)] = CommitEv
    /\ \E a \in 1..Len(log) : log[a] = AbortEv
    /\ Balanced(log)

\* C17. The position never exceeds the input length (it also stays on a
\* character boundary), so remaining() never slices past the end of the
\* input; and no Start event records a position beyond the input length.
C17_PositionInRange ==
    /\ position >= 0
    /\ position <= Len(input)
    /\ position < Len(input) => input[position + 1] # "A9"
    /\ \A i \in 1..Len(log) :
        IsStart(log[i]) => (log[i].position >= 0 /\ log[i].position <= Len(input))

\* C17 witness: a rule is started with the cursor at the very end of the
\* input, after an operator was consumed there.
C17_Witness ==
    /\ log # <<>>
    /\ input # <<>>
    /\ position = Len(input)
    /\ log[Len(log)] = StartEv("prim", Len(input))

\* the sum of the byte lengths of a sequence of tokens
RECURSIVE TotalLen(_)
TotalLen(ts) == IF ts = <<>> THEN 0 ELSE Len(Head(ts)) + TotalLen(Tail(ts))

\* C18. Cursor/log consistency: the tokens of the Consume events that lie in
\* no aborted span, put together in log order, are the input up to the
\* position, and the position is the sum of their byte lengths; the Consume
\* events of aborted spans stay in the log and count for nothing.
C18_CursorLogConsistency ==
    /\ Flatten(LiveTokens(log)) = SubSeq(input, 1, position)
    /\ position = TotalLen(LiveTokens(log))

\* C18 witness: a finished parse that consumed three tokens or more and
\* whose log holds further Consume events inside aborted spans.
C18_Witness ==
    /\ Done
    /\ position >= 3
    /\ Len(LiveTokens(log)) = position
    /\ Len(ConsumeTokens(log)) > Len(LiveTokens(log))

AsciiDigits == { "0", "1", "2", "3", "4", "5", "6", "7", "8", "9" }

\* the length of the longest prefix of s of the form
\* digit (('+' | '*') digit)*, given that its first n bytes are of that form
RECURSIVE LongestPrefix(_, _)
LongestPrefix(s, n) ==
    IF /\ n + 2 <= Len(s)
       /\ s[n + 1] \in {"+", "*"}
       /\ s[n + 2] \in AsciiDigits
    THEN LongestPrefix(s, n + 2)
    ELSE n

\* C19. Against the reference recognizer: the parse of Term from position 0
\* returns true exactly when the input begins with an ASCII digit, and then
\* the final position is the length of the longest prefix of the input of
\* the form digit (('+' | '*') digit)*: an operator is kept only when a
\* digit follows it.
C19_Recognizer ==
    Done =>
        /\ ret = "true" <=> (input # <<>> /\ input[1] \in AsciiDigits)
        /\ ret = "false" <=> (input = <<>> \/ input[1] \notin AsciiDigits)
        /\ ret = "true" => position = LongestPrefix(input, 1)

\* C19 witness: the parse of "1*2+1*2" has returned with the whole input
\* matched, and so has a parse that left a trailing operator unconsumed.
C19_Witness ==
    /\ Done
    /\ ret = "true"
    /\ \/ input = <<"1", "*", "2", "+", "1", "*", "2">> /\ position = 7
       \/ input = <<"1", "+", "2", "*">> /\ position = 3

\* a rule is re-entered inside its own open attempt only further on in the
\* input, past a digit and an operator at least
NoReentryInPlace ==
    \A i, j \in 1..Len(stack) :
        (i < j /\ stack[i].rule = stack[j].rule) =>
            stack[j].backtrack >= stack[i].backtrack + 2

\* C20. Termination: the parse of Term returns, for every input, because a
\* rule is never re-entered at the same position within its own open
\* attempt: each nested attempt of a rule starts at least a digit and an
\* operator further on than the enclosing attempt of that rule.
C20_Termination ==
    /\ <>Done
    /\ [](NoReentryInPlace /\ Len(stack) <= 7 * (Len(input) + 1))

\* C20 witness: term and factor are both open twice, the inner attempts
\* further on in the input than the outer ones.
C20_Witness ==
    /\ Len(stack) >= 8
    /\ \E i, j \in 1..Len(stack) :
        i < j /\ stack[i].rule = "term" /\ stack[j].rule = "term"
    /\ \E i, j \in 1..Len(stack) :
        i < j /\ stack[i].rule = "factor" /\ stack[j].rule = "factor"

====
